---- MODULE Spec2Model ----
(***************************************************************************)
(* dpytools: the three reaction menus of dpytools/menus.py (arrows,        *)
(* confirm, multichoice) and the chunking helper of dpytools/__init__.py   *)
(* they rest on.                                                           *)
(*                                                                         *)
(* One menu call is modelled per behaviour: the call is chosen from the    *)
(* idle state, then reaction events and timeouts are delivered to it by    *)
(* the host until it returns or raises.  A string is modelled by its       *)
(* length, its Python type and a tag standing for its content.             *)
(***************************************************************************)
EXTENDS Integers, Sequences, FiniteSets, TLC

\* ------------------------------------------------------------------ bounds
MaxOptions == 25
MaxEmbeds == 5
\* chunkify: the longest list and the largest max_number
MaxListLen == 7
MaxNumber == 3
\* chunkify_string_list: the longest list, the longest string, the largest
\* max_length and the largest separator_length
MaxStrings == 3
MaxItemLen == 2
MaxChunkLength == 5
MaxSeparator == 1

\* ------------------------------------------------------- program constants
\* chunkify_string_list(options, 10, 2000, separator_length=10)
PageSize == 10
PageLength == 2000
SeparatorLength == 10
\* any([len(opt) > 2000 for opt in options])
OptionCap == 2000

\* ------------------------------------------------------------------ emojis
THUMBS_UP == "THUMBS_UP"
X == "X"
LAST_TRACK == "LAST_TRACK"
REVERSE == "REVERSE"
PLAY == "PLAY"
NEXT_TRACK == "NEXT_TRACK"
PAUSE == "PAUSE"
SMILE == "SMILE"

\* list(nums): the ten numeral emojis in the order of the dict, values 0..9
nums == <<"ONE", "TWO", "THREE", "FOUR", "FIVE",
          "SIX", "SEVEN", "EIGHT", "NINE", "TEN">>

Range(s) == {s[i] : i \in 1..Len(s)}

IsNum(e) == e \in Range(nums)

\* NumValue with the numerals counted from one
NumValue_OneBased(e) == CHOOSE i \in 1..Len(nums) : nums[i] = e

\* nums[emoji]: the 0-based position a numeral emoji stands for
NumValue(e) == (CHOOSE i \in 1..Len(nums) : nums[i] = e) - 1

Emojis == Range(nums) \cup {THUMBS_UP, X, LAST_TRACK, REVERSE, PLAY, NEXT_TRACK, PAUSE, SMILE}

\* ------------------------------------------------------------- environment
\* author: ctx.author; bot: ctx.bot.user; member: a guild member a lock may
\* name; stranger: anybody else.
Users == {"author", "bot", "member", "stranger"}

\* menu: the menu's own message; sameChan: another message of ctx.channel;
\* otherChan: a message of another channel.
Messages == {"menu", "sameChan", "otherChan"}

ChannelOf(m) == IF m = "otherChan" THEN "elsewhere" ELSE "ctx.channel"

Events == [user : Users, msg : Messages, emoji : Emojis]

\* ------------------------------------------------------------------ python
Min(a, b) == IF a < b THEN a ELSE b

\* s[a:b] for 0 <= a
Slice(s, a, b) == IF b <= a THEN <<>> ELSE SubSeq(s, a + 1, Min(b, Len(s)))

RECURSIVE Flatten(_)
Flatten(ss) == IF ss = <<>> THEN <<>> ELSE Head(ss) \o Flatten(Tail(ss))

\* ----------------------------------------------------- chunkify_string_list
\* len(''.join(opt + '_' * separator_length for opt in l))
RECURSIVE JoinedLen(_, _)
JoinedLen(l, separator_length) ==
    IF l = <<>> THEN 0
    ELSE Head(l).len + separator_length + JoinedLen(Tail(l), separator_length)

\* ChunkifyRejects looking at the first item only
ChunkifyRejects_FirstOnly(input_list, max_length, separator_length) ==
    /\ Len(input_list) > 0
    /\ input_list[1].len > max_length - separator_length

\* the guard of chunkify_string_list
ChunkifyRejects(input_list, max_length, separator_length) ==
    \E i \in 1..Len(input_list) : input_list[i].len > max_length - separator_length

\* ShrinkChunk with an if in place of the while: one item removed at most
ShrinkChunk_Once(input_list, i, n, max_length, separator_length) ==
    LET l == Slice(input_list, i, i + n)
    IN  IF JoinedLen(l, separator_length) - separator_length > max_length
        THEN Slice(input_list, i, i + n - 1)
        ELSE l

\* the while loop of one chunk: n counts down from max_number
RECURSIVE ShrinkChunk(_, _, _, _, _)
ShrinkChunk(input_list, i, n, max_length, separator_length) ==
    LET l == Slice(input_list, i, i + n)
    IN  IF JoinedLen(l, separator_length) - separator_length > max_length
        THEN ShrinkChunk(input_list, i, n - 1, max_length, separator_length)
        ELSE l

\* the chunks yielded for i in range(from, len(input_list), max_number)
RECURSIVE ChunksFrom(_, _, _, _, _)
ChunksFrom(input_list, i, max_number, max_length, separator_length) ==
    IF i >= Len(input_list) THEN <<>>
    ELSE <<ShrinkChunk(input_list, i, max_number, max_length, separator_length)>>
         \o ChunksFrom(input_list, i + max_number, max_number, max_length, separator_length)

chunkify_string_list(input_list, max_number, max_length, separator_length) ==
    ChunksFrom(input_list, 0, max_number, max_length, separator_length)

\* ------------------------------------------------------------------- state
VARIABLES
    menu,       \* the menu called: "none", "arrows", "confirm", "multichoice"
    pc,         \* "idle", "waiting" (in wait_for), "returned", "raised"
    inGuild,    \* msg.guild is set (FALSE: the menu runs in a DM channel)
    lock,       \* confirm: the lock parameter
    roles,      \* roles[u]: member u holds the role a role lock names, now
    embed_len,  \* arrows: len(embed_list)
    options,    \* multichoice: the options parameter
    embeds,     \* multichoice: the chunk of every page, embeds[i][0]
    head,       \* arrows, multichoice: the local variable head
    to_react,   \* the local list to_react (confirm: emojis)
    attached,   \* the reactions the bot has on the message
    msg,        \* the message: "none", "shown", "closing", "deleted"
    shown,      \* what the message displays
    sends,      \* messages sent by the call
    deletes,    \* msg.delete() calls of the call
    clears,     \* msg.clear_reactions() calls made by the last handler
    refused,    \* some clear_reactions() of the call raised Forbidden
    result,     \* the value returned: <<>> is None, <<v>> is v
    error,      \* the exception raised, "" when none
    last,       \* what wait_for ended with last: an event check let through,
                \* or the timeout
    gen         \* the generator a call of chunkify or chunkify_string_list
                \* has returned: its arguments, its position and the chunks
                \* it has yielded

menuVars == <<menu, pc, inGuild, lock, roles, embed_len, options, embeds, head,
              to_react, attached, msg, shown, sends, deletes, clears, refused,
              result, error, last>>

vars == <<menuVars, gen>>

None == <<>>

NoEvent == [kind |-> "none", user |-> "bot", msg |-> "menu", emoji |-> SMILE,
            hadRole |-> FALSE]

TimeoutEvent == [NoEvent EXCEPT !.kind = "timeout"]

\* the record of an event e that check let through, with whether its user
\* held the locked role when it was checked
Delivered(e) == [kind |-> "event", user |-> e.user, msg |-> e.msg,
                 emoji |-> e.emoji, hadRole |-> roles[e.user]]

NothingShown == [kind |-> "none", index |-> 0, footer |-> <<>>]

\* ------------------------------------------------------------------ inputs
\* A string of the given length; tag stands for its content.
Str(tag, len) == [tag |-> tag, typ |-> "str", len |-> len]

\* The lengths the options are drawn from: a short one and one so long that
\* ten of them do not fit a page.
BaseLengths == {1, 500}

\* One element of a list may differ from the others: a string at or around
\* the two length caps, or a value that is no string.
Specials == {[typ |-> "str", len |-> l] :
                 l \in {PageLength - SeparatorLength, PageLength - SeparatorLength + 1,
                        OptionCap, OptionCap + 1}}
            \cup {[typ |-> "int", len |-> 0]}

Items(n, base, where, special) ==
    LET pos == CASE where = "first" -> 1 [] where = "last" -> n [] OTHER -> 0
    IN  [i \in 1..n |-> IF i = pos
                        THEN [tag |-> i, typ |-> special.typ, len |-> special.len]
                        ELSE Str(i, base)]

\* The values multichoice is called with: lists and tuples of 0..MaxOptions
\* elements.
OptionInputs ==
    {[kind |-> k, items |-> Items(n, base, where, special)] :
        k \in {"list", "tuple"}, n \in 0..MaxOptions, base \in BaseLengths,
        where \in {"none", "first", "last"}, special \in Specials}

\* The values of confirm's lock: True, False, None, a member, a role.
Locks == {[kind |-> "bool", value |-> TRUE, id |-> ""],
          [kind |-> "bool", value |-> FALSE, id |-> ""],
          [kind |-> "None", value |-> FALSE, id |-> ""],
          [kind |-> "Role", value |-> TRUE, id |-> ""]}
         \cup {[kind |-> "Member", value |-> TRUE, id |-> u] : u \in Users}

\* ------------------------------------------------------ try_clear_reactions
\* What the host can answer to msg.clear_reactions(): it refuses in a DM
\* channel, and in a guild when the bot lacks the permission.
ClearOutcomes == IF inGuild THEN {"ok", "Forbidden"} ELSE {"Forbidden"}

\* try_clear_reactions without the test of msg.guild
try_clear_reactions_NoGuildTest(outcome) ==
    [calls |-> 1, refused |-> outcome = "Forbidden",
     left |-> IF outcome = "ok" THEN {} ELSE attached]

\* try_clear_reactions(msg): the call is made only if msg.guild, and a
\* refusal is swallowed.  The fields are the calls made, whether one was
\* refused, and the reactions left on the message.
try_clear_reactions(outcome) ==
    IF inGuild
    THEN [calls |-> 1, refused |-> outcome = "Forbidden",
          left |-> IF outcome = "ok" THEN {} ELSE attached]
    ELSE [calls |-> 0, refused |-> FALSE, left |-> attached]

Init ==
    /\ menu = "none"
    /\ pc = "idle"
    /\ inGuild \in BOOLEAN
    /\ lock = [kind |-> "bool", value |-> TRUE, id |-> ""]
    /\ roles = [u \in Users |-> FALSE]
    /\ embed_len = 0
    /\ options = [kind |-> "list", items |-> <<>>]
    /\ embeds = <<>>
    /\ head = 0
    /\ to_react = <<>>
    /\ attached = {}
    /\ msg = "none"
    /\ shown = NothingShown
    /\ sends = 0
    /\ deletes = 0
    /\ clears = 0
    /\ gen = [fn |-> "", pc |-> "none", input_list |-> <<>>, max_number |-> 0,
              max_length |-> 0, separator_length |-> 0, i |-> 0, out |-> <<>>,
              error |-> ""]
    /\ refused = FALSE
    /\ result = None
    /\ error = ""
    /\ last = NoEvent

\* ------------------------------------------------------------- multichoice
\* multichoice_validate without the test of the type of options
multichoice_validate_NoListTest(opts) ==
    IF Len(opts.items) = 0 THEN "ValueError: Options cannot be empty"
    ELSE IF \E i \in 1..Len(opts.items) : opts.items[i].typ # "str"
         THEN "TypeError: all of the options must be str"
    ELSE IF \E i \in 1..Len(opts.items) : opts.items[i].len > OptionCap
         THEN "ValueError: The maximum length for any option is 2000"
    ELSE ""

\* The validation at the head of multichoice: the exception it raises, or
\* "" when it raises none.
multichoice_validate(opts) ==
    IF Len(opts.items) = 0 THEN "ValueError: Options cannot be empty"
    ELSE IF opts.kind # "list" THEN "TypeError: options param must be list"
    ELSE IF \E i \in 1..Len(opts.items) : opts.items[i].typ # "str"
         THEN "TypeError: all of the options must be str"
    ELSE IF \E i \in 1..Len(opts.items) : opts.items[i].len > OptionCap
         THEN "ValueError: The maximum length for any option is 2000"
    ELSE ""

\* multiple = len(options) > 10
multiple == Len(options.items) > 10

\* get_nums(_chunk)
get_nums(chunk) == SubSeq(nums, 1, Min(Len(chunk), Len(nums)))

\* multichoice_get_reactions with first and last gated two pages away, as
\* in arrows
multichoice_get_reactions_TwoAway(embeds_, head_, multiple_) ==
    LET numerals == get_nums(embeds_[head_ + 1])
        n == Len(embeds_)
    IN  IF ~multiple_ THEN numerals \o <<X>>
        ELSE (IF head_ - 2 >= 0 THEN <<LAST_TRACK>> ELSE <<>>)
             \o (IF head_ - 1 >= 0 THEN <<REVERSE>> ELSE <<>>)
             \o numerals
             \o (IF head_ + 1 < n THEN <<PLAY>> ELSE <<>>)
             \o (IF head_ + 2 < n THEN <<NEXT_TRACK>> ELSE <<>>)
             \o <<X>>

\* get_reactions() of multichoice, for the pages embeds_ and the head head_
multichoice_get_reactions(embeds_, head_, multiple_) ==
    LET numerals == get_nums(embeds_[head_ + 1])
        nav == IF ~multiple_ THEN numerals
               ELSE IF head_ \notin {0, Len(embeds_) - 1}
                    THEN <<LAST_TRACK, REVERSE>> \o numerals \o <<PLAY, NEXT_TRACK>>
               ELSE IF head_ = 0 THEN numerals \o <<PLAY, NEXT_TRACK>>
               ELSE <<LAST_TRACK, REVERSE>> \o numerals
    IN  nav \o <<X>>

\* adjust_head with next not capped at the last page
adjust_head_Uncapped(head_, emoji) ==
    CASE emoji = LAST_TRACK -> 0
      [] emoji = REVERSE -> IF head_ > 0 THEN head_ - 1 ELSE head_
      [] emoji = PLAY -> head_ + 1
      [] emoji = NEXT_TRACK -> Len(embeds) - 1
      [] OTHER -> head_

\* adjust_head(head_, emoji) of multichoice, when multiple
adjust_head(head_, emoji) ==
    CASE emoji = LAST_TRACK -> 0
      [] emoji = REVERSE -> IF head_ > 0 THEN head_ - 1 ELSE head_
      [] emoji = PLAY -> IF head_ < Len(embeds) - 1 THEN head_ + 1 ELSE head_
      [] emoji = NEXT_TRACK -> Len(embeds) - 1
      [] OTHER -> head_

\* check(reaction, user) of multichoice
multichoice_check(e) ==
    /\ e.user # "bot"
    /\ e.user = "author"
    /\ ChannelOf(e.msg) = "ctx.channel"
    /\ e.emoji \in Range(to_react)

\* the page of index i with its footer "Page i+1/len(embeds)"
Page(i, n) == [kind |-> "page", index |-> i, footer |-> <<i + 1, n>>]

CallMultichoice(opts) ==
    /\ pc = "idle"
    /\ menu' = "multichoice"
    /\ options' = opts
    /\ UNCHANGED <<inGuild, lock, roles, embed_len, deletes, clears, refused, result, last>>
    /\ IF multichoice_validate(opts) # ""
       THEN /\ pc' = "raised"
            /\ error' = multichoice_validate(opts)
            /\ UNCHANGED <<embeds, head, to_react, attached, msg, shown, sends>>
       ELSE IF ChunkifyRejects(opts.items, PageLength, SeparatorLength)
       THEN /\ pc' = "raised"
            /\ error' = "ValueError: All items should be of length 2000 or less."
            /\ UNCHANGED <<embeds, head, to_react, attached, msg, shown, sends>>
       ELSE LET chunks == chunkify_string_list(opts.items, PageSize, PageLength, SeparatorLength)
                first == multichoice_get_reactions(chunks, 0, Len(opts.items) > 10)
            IN  /\ embeds' = chunks
                /\ head' = 0
                /\ to_react' = first
                /\ sends' = sends + 1
                /\ msg' = "shown"
                /\ shown' = Page(0, Len(chunks))
                /\ attached' = Range(first)
                /\ pc' = "waiting"
                /\ error' = ""

\* One pass of the loop of multichoice on a reaction_add event; outcome is
\* the host's answer to msg.clear_reactions(), should the pass call it.
MultichoiceReaction(e, outcome) ==
    /\ menu = "multichoice"
    /\ pc = "waiting"
    /\ UNCHANGED <<menu, inGuild, lock, roles, embed_len, options, embeds, sends>>
    /\ last' = IF multichoice_check(e) THEN Delivered(e) ELSE last
    /\ IF ~multichoice_check(e)
       THEN UNCHANGED <<pc, head, to_react, attached, msg, shown, deletes, clears,
                        refused, result, error>>
       ELSE IF e.emoji = X
       THEN /\ msg' = "deleted"
            /\ deletes' = deletes + 1
            /\ attached' = {}
            /\ clears' = 0
            /\ pc' = "returned"
            /\ result' = None
            /\ UNCHANGED <<head, to_react, shown, refused, error>>
       ELSE IF IsNum(e.emoji)
       THEN /\ msg' = "deleted"
            /\ deletes' = deletes + 1
            /\ attached' = {}
            /\ clears' = 0
            /\ UNCHANGED <<head, to_react, shown, refused>>
            /\ IF NumValue(e.emoji) < Len(embeds[head + 1])
               THEN /\ pc' = "returned"
                    /\ result' = <<embeds[head + 1][NumValue(e.emoji) + 1]>>
                    /\ error' = ""
               ELSE /\ pc' = "raised"
                    /\ error' = "IndexError: list index out of range"
                    /\ result' = None
       ELSE IF ~multiple
       THEN /\ pc' = "raised"
            /\ error' = "TypeError: list indices must be integers"
            /\ UNCHANGED <<head, to_react, attached, msg, shown, deletes, clears,
                           refused, result>>
       ELSE /\ head' = adjust_head(head, e.emoji)
            /\ shown' = Page(head', Len(embeds))
            /\ clears' = 1
            /\ refused' = (refused \/ outcome = "Forbidden")
            /\ IF outcome = "Forbidden"
               THEN UNCHANGED <<to_react, attached>>
               ELSE /\ to_react' = multichoice_get_reactions(embeds, head', multiple)
                    /\ attached' = Range(to_react')
            /\ UNCHANGED <<pc, msg, deletes, result, error>>

\* MultichoiceTimeout clearing the reactions, as arrows does, instead of
\* deleting the message
MultichoiceTimeout_ClearOnly ==
    /\ menu = "multichoice"
    /\ pc = "waiting"
    /\ last' = TimeoutEvent
    /\ clears' = try_clear_reactions("ok").calls
    /\ attached' = try_clear_reactions("ok").left
    /\ pc' = "returned"
    /\ result' = None
    /\ UNCHANGED <<menu, inGuild, lock, roles, embed_len, options, embeds, head,
                   to_react, msg, shown, sends, deletes, refused, error>>

\* wait_for of multichoice raises asyncio.TimeoutError
MultichoiceTimeout ==
    /\ menu = "multichoice"
    /\ pc = "waiting"
    /\ last' = TimeoutEvent
    /\ msg' = "deleted"
    /\ deletes' = deletes + 1
    /\ attached' = {}
    /\ clears' = 0
    /\ pc' = "returned"
    /\ result' = None
    /\ UNCHANGED <<menu, inGuild, lock, roles, embed_len, options, embeds, head,
                   to_react, shown, sends, refused, error>>

\* ------------------------------------------------------------------ arrows
\* x in range(n)
InRange(x, n) == 0 <= x /\ x < n

\* arrows_get_reactions with first and last gated as prev and next are
arrows_get_reactions_OneAway(_head, n) ==
    (IF InRange(_head - 1, n) THEN <<LAST_TRACK, REVERSE>> ELSE <<>>)
    \o (IF InRange(_head + 1, n) THEN <<PLAY, NEXT_TRACK>> ELSE <<>>)
    \o <<PAUSE, X>>

\* arrows_get_reactions with next attached at every index
arrows_get_reactions_AlwaysNext(_head, n) ==
    (IF InRange(_head - 2, n) THEN <<LAST_TRACK>> ELSE <<>>)
    \o (IF InRange(_head - 1, n) THEN <<REVERSE>> ELSE <<>>)
    \o <<PLAY>>
    \o (IF InRange(_head + 2, n) THEN <<NEXT_TRACK>> ELSE <<>>)
    \o <<PAUSE, X>>

\* get_reactions(_head) of arrows, for len(embed_list) = n
arrows_get_reactions(_head, n) ==
    (IF InRange(_head - 2, n) THEN <<LAST_TRACK>> ELSE <<>>)
    \o (IF InRange(_head - 1, n) THEN <<REVERSE>> ELSE <<>>)
    \o (IF InRange(_head + 1, n) THEN <<PLAY>> ELSE <<>>)
    \o (IF InRange(_head + 2, n) THEN <<NEXT_TRACK>> ELSE <<>>)
    \o <<PAUSE, X>>

\* check(payload_) of arrows
arrows_check(e) ==
    /\ e.msg = "menu"
    /\ e.user = "author"
    /\ e.emoji \in Range(to_react)

\* get_head(head_, emoji_) of arrows: an index, True (pause) or False (close)
get_head(head_, emoji_) ==
    CASE emoji_ = LAST_TRACK -> [is |-> "int", int |-> 0]
      [] emoji_ = REVERSE -> [is |-> "int", int |-> IF head_ # 0 THEN head_ - 1 ELSE 0]
      [] emoji_ = PLAY -> [is |-> "int",
                           int |-> IF head_ < embed_len - 1 THEN head_ + 1 ELSE embed_len]
      [] emoji_ = NEXT_TRACK -> [is |-> "int", int |-> embed_len - 1]
      [] emoji_ = X -> [is |-> "False", int |-> 0]
      [] emoji_ = PAUSE -> [is |-> "True", int |-> 0]

View(i) == [kind |-> "view", index |-> i, footer |-> <<>>]

ClosedView == [kind |-> "closed", index |-> 0, footer |-> <<>>]

CallArrows(n, h) ==
    /\ pc = "idle"
    /\ menu' = "arrows"
    /\ embed_len' = n
    /\ head' = h
    /\ sends' = sends + 1
    /\ msg' = "shown"
    /\ shown' = View(IF n = 1 THEN 0 ELSE h)
    /\ UNCHANGED <<inGuild, lock, roles, options, embeds, deletes, clears, refused,
                   error, last>>
    /\ IF n = 1
       THEN /\ pc' = "returned"
            /\ result' = <<"Message">>
            /\ UNCHANGED <<to_react, attached>>
       ELSE /\ pc' = "waiting"
            /\ to_react' = arrows_get_reactions(h, n)
            /\ attached' = Range(to_react')
            /\ UNCHANGED result

\* One pass of the loop of arrows on a raw_reaction_add event; outcome is
\* the host's answer to msg.clear_reactions(), should the pass call it.
ArrowsReaction(e, outcome) ==
    /\ menu = "arrows"
    /\ pc = "waiting"
    /\ UNCHANGED <<menu, inGuild, lock, roles, embed_len, options, embeds, sends, deletes>>
    /\ last' = IF arrows_check(e) THEN Delivered(e) ELSE last
    /\ IF ~arrows_check(e)
       THEN UNCHANGED <<pc, head, to_react, attached, msg, shown, clears, refused,
                        result, error>>
       ELSE LET new == get_head(head, e.emoji)
                cleared == try_clear_reactions(outcome)
            IN  /\ clears' = cleared.calls
                /\ refused' = (refused \/ cleared.refused)
                /\ IF new.is = "True"
                   THEN /\ attached' = cleared.left
                        /\ pc' = "returned"
                        /\ result' = None
                        /\ UNCHANGED <<head, to_react, msg, shown, error>>
                   ELSE IF new.is = "False"
                   THEN /\ attached' = cleared.left
                        /\ msg' = "closing"
                        /\ shown' = ClosedView
                        /\ pc' = "returned"
                        /\ result' = None
                        /\ UNCHANGED <<head, to_react, error>>
                   ELSE IF ~InRange(new.int, embed_len)
                   THEN /\ attached' = cleared.left
                        /\ head' = new.int
                        /\ pc' = "raised"
                        /\ error' = "IndexError: list index out of range"
                        /\ UNCHANGED <<to_react, msg, shown, result>>
                   ELSE /\ head' = new.int
                        /\ shown' = View(new.int)
                        /\ to_react' = arrows_get_reactions(new.int, embed_len)
                        /\ attached' = cleared.left \cup Range(to_react')
                        /\ UNCHANGED <<pc, msg, result, error>>

\* ArrowsTimeout ending as the close affordance does
ArrowsTimeout_Close(outcome) ==
    /\ menu = "arrows"
    /\ pc = "waiting"
    /\ last' = TimeoutEvent
    /\ clears' = try_clear_reactions(outcome).calls
    /\ refused' = (refused \/ try_clear_reactions(outcome).refused)
    /\ attached' = try_clear_reactions(outcome).left
    /\ msg' = "closing"
    /\ shown' = ClosedView
    /\ pc' = "returned"
    /\ result' = None
    /\ UNCHANGED <<menu, inGuild, lock, roles, embed_len, options, embeds, head,
                   to_react, sends, deletes, error>>

\* wait_for of arrows raises asyncio.TimeoutError
ArrowsTimeout(outcome) ==
    /\ menu = "arrows"
    /\ pc = "waiting"
    /\ last' = TimeoutEvent
    /\ clears' = try_clear_reactions(outcome).calls
    /\ refused' = (refused \/ try_clear_reactions(outcome).refused)
    /\ attached' = try_clear_reactions(outcome).left
    /\ pc' = "returned"
    /\ result' = None
    /\ UNCHANGED <<menu, inGuild, lock, roles, embed_len, options, embeds, head,
                   to_react, msg, shown, sends, deletes, error>>

\* ----------------------------------------------------------------- confirm
\* emojis = ['thumbs up', 'x']
emojis == <<THUMBS_UP, X>>

\* if lock: the lock is neither False nor None
Truthy(l) == l.kind \in {"Member", "Role"} \/ (l.kind = "bool" /\ l.value)

\* confirm_check with the role looked up on the invoking user
confirm_check_AuthorRole(e) ==
    /\ e.user # "bot"
    /\ e.emoji \in Range(emojis)
    /\ e.msg = "menu"
    /\ Truthy(lock) =>
         CASE lock.kind = "bool" -> e.user = "author"
           [] lock.kind = "Member" -> e.user = lock.id
           [] lock.kind = "Role" -> roles["author"]

\* check(payload) of confirm
confirm_check(e) ==
    /\ e.user # "bot"
    /\ e.emoji \in Range(emojis)
    /\ e.msg = "menu"
    /\ Truthy(lock) =>
         CASE lock.kind = "bool" -> e.user = "author"
           [] lock.kind = "Member" -> e.user = lock.id
           [] lock.kind = "Role" -> roles[e.user]

\* confirm_result with the test on the deny emoji
confirm_result_OnDeny(emoji) == emoji = X

\* the value confirm returns for the emoji of the event that ended the wait
confirm_result(emoji) == emoji = THUMBS_UP

\* confirm(ctx, msg, lock): msg is a message the caller has sent.  A role
\* lock names a role of ctx.guild.
CallConfirm(l) ==
    /\ pc = "idle"
    /\ l.kind = "Role" => inGuild
    /\ menu' = "confirm"
    /\ lock' = l
    /\ msg' = "shown"
    /\ to_react' = emojis
    /\ attached' = Range(emojis)
    /\ pc' = "waiting"
    /\ UNCHANGED <<inGuild, roles, embed_len, options, embeds, head, shown, sends,
                   deletes, clears, refused, result, error, last>>

\* wait_for of confirm on a raw_reaction_add event
ConfirmReaction(e, outcome) ==
    /\ menu = "confirm"
    /\ pc = "waiting"
    /\ UNCHANGED <<menu, inGuild, lock, roles, embed_len, options, embeds, head,
                   to_react, msg, shown, sends, deletes, error>>
    /\ last' = IF confirm_check(e) THEN Delivered(e) ELSE last
    /\ IF ~confirm_check(e)
       THEN UNCHANGED <<pc, attached, clears, refused, result>>
       ELSE /\ clears' = try_clear_reactions(outcome).calls
            /\ refused' = (refused \/ try_clear_reactions(outcome).refused)
            /\ attached' = try_clear_reactions(outcome).left
            /\ pc' = "returned"
            /\ result' = <<confirm_result(e.emoji)>>

\* wait_for of confirm raises asyncio.TimeoutError
ConfirmTimeout(outcome) ==
    /\ menu = "confirm"
    /\ pc = "waiting"
    /\ last' = TimeoutEvent
    /\ clears' = try_clear_reactions(outcome).calls
    /\ refused' = (refused \/ try_clear_reactions(outcome).refused)
    /\ attached' = try_clear_reactions(outcome).left
    /\ pc' = "returned"
    /\ result' = None
    /\ UNCHANGED <<menu, inGuild, lock, roles, embed_len, options, embeds, head,
                   to_react, msg, shown, sends, deletes, error>>

\* The guild gives the locked role to member u, or takes it away, while the
\* dialog waits.
ToggleRole(u) ==
    /\ menu = "confirm"
    /\ pc = "waiting"
    /\ lock.kind = "Role"
    /\ roles' = [roles EXCEPT ![u] = ~@]
    /\ UNCHANGED <<menu, pc, inGuild, lock, embed_len, options, embeds, head, to_react,
                   attached, msg, shown, sends, deletes, clears, refused, result,
                   error, last>>

\* ----------------------------------------------------------- specification
MenuNext ==
    \/ \E opts \in OptionInputs : CallMultichoice(opts)
    \/ \E e \in Events, outcome \in ClearOutcomes : MultichoiceReaction(e, outcome)
    \/ MultichoiceTimeout
    \/ \E n \in 1..MaxEmbeds, h \in 0..(MaxEmbeds - 1) : h < n /\ CallArrows(n, h)
    \/ \E e \in Events, outcome \in ClearOutcomes : ArrowsReaction(e, outcome)
    \/ \E outcome \in ClearOutcomes : ArrowsTimeout(outcome)
    \/ \E l \in Locks : CallConfirm(l)
    \/ \E e \in Events, outcome \in ClearOutcomes : ConfirmReaction(e, outcome)
    \/ \E outcome \in ClearOutcomes : ConfirmTimeout(outcome)
    \/ \E u \in Users : ToggleRole(u)

\* The menus hold no generator of their own in the state: multichoice runs
\* chunkify_string_list to its end inside CallMultichoice.
Next == MenuNext /\ UNCHANGED gen

Spec == Init /\ [][Next]_vars

\* --------------------------------------------- chunkify, chunkify_string_list
\* chunkify_chunk with the slice one item short
chunkify_chunk_Short(input_list, i, max_number) == Slice(input_list, i, i + max_number - 1)

\* input_list[i:i + max_number], the chunk chunkify yields at i
chunkify_chunk(input_list, i, max_number) == Slice(input_list, i, i + max_number)

\* The lists chunkify is called with: lists of 0..MaxListLen elements.
ChunkifyInputs == {[i \in 1..n |-> Str(i, 1)] : n \in 0..MaxListLen}

\* The lists chunkify_string_list is called with: every list of at most
\* MaxStrings strings of 0..MaxItemLen characters.
StringLists ==
    UNION {{[i \in 1..n |-> Str(i, lens[i])] : lens \in [1..n -> 0..MaxItemLen]} :
           n \in 0..MaxStrings}

\* The call returns a generator; no line of the function has run yet.
NewGenerator(fn, input_list, max_number, max_length, separator_length) ==
    [fn |-> fn, pc |-> "created", input_list |-> input_list,
     max_number |-> max_number, max_length |-> max_length,
     separator_length |-> separator_length, i |-> 0, out |-> <<>>, error |-> ""]

CallChunkify(input_list, max_number) ==
    /\ gen.pc = "none"
    /\ gen' = NewGenerator("chunkify", input_list, max_number, 0, 0)
    /\ UNCHANGED menuVars

CallChunkifyStringList(input_list, max_number, max_length, separator_length) ==
    /\ gen.pc = "none"
    /\ gen' = NewGenerator("chunkify_string_list", input_list, max_number,
                           max_length, separator_length)
    /\ UNCHANGED menuVars

\* next(generator): the function runs to its next yield, to its end, or to
\* the exception its first lines raise.
GeneratorNext ==
    /\ gen.pc \in {"created", "suspended"}
    /\ UNCHANGED menuVars
    /\ IF /\ gen.fn = "chunkify_string_list"
          /\ gen.pc = "created"
          /\ ChunkifyRejects(gen.input_list, gen.max_length, gen.separator_length)
       THEN gen' = [gen EXCEPT !.pc = "raised",
                               !.error = "ValueError: All items should be of length or less."]
       ELSE IF gen.i >= Len(gen.input_list)
       THEN gen' = [gen EXCEPT !.pc = "exhausted"]
       ELSE gen' = [gen EXCEPT
                      !.pc = "suspended",
                      !.i = gen.i + gen.max_number,
                      !.out = Append(gen.out,
                                IF gen.fn = "chunkify"
                                THEN chunkify_chunk(gen.input_list, gen.i, gen.max_number)
                                ELSE ShrinkChunk(gen.input_list, gen.i, gen.max_number,
                                                 gen.max_length, gen.separator_length))]

ChunkInit == Init /\ inGuild

ChunkNext ==
    \/ \E input_list \in ChunkifyInputs, max_number \in 1..MaxNumber :
         CallChunkify(input_list, max_number)
    \/ \E input_list \in StringLists, max_number \in 1..MaxNumber,
          max_length \in 0..MaxChunkLength, separator_length \in 0..MaxSeparator :
         CallChunkifyStringList(input_list, max_number, max_length, separator_length)
    \/ GeneratorNext

ChunkSpec == ChunkInit /\ [][ChunkNext]_vars

\* ------------------------------------------------------------------ claims
\* The event check is asked about when the invoking user reacts with emoji
\* on the menu's own message.
AuthorOnMenu(emoji) == [user |-> "author", msg |-> "menu", emoji |-> emoji]

\* 25 short options are on pages of 10, 10 and 5, page 1 is displayed and
\* the invoking user has selected numeral 3 on it.
C1_ThreeOnPageOne ==
    /\ menu = "multichoice"
    /\ Len(options.items) = 25
    /\ Len(embeds) = 3
    /\ <<Len(embeds[1]), Len(embeds[2]), Len(embeds[3])>> = <<10, 10, 5>>
    /\ head = 1
    /\ last.kind = "event" /\ last.emoji = "THREE" /\ last.msg = "menu"

\* C1 as claimed, its example: numeral 3 on page 1 of 25 options returns
\* options[13], the element of index 13 counted from 0.
C1_ExampleAsClaimed ==
    C1_ThreeOnPageOne => (pc = "returned" /\ result = <<options.items[13 + 1]>>)

\* C1 amended: in multichoice, the k-th numeral selected on page p (k at
\* most the number of options of that page) ends the call, which returns
\* options[10*p + k - 1]: numeral 3 on page 1 of 25 options returns
\* options[12], and with 10 options numeral 1 returns options[0] and the
\* tenth numeral options[9]; a numeral attached to the message is always
\* let through when the invoking user selects it.
C1_SelectionReturnsOption ==
    menu = "multichoice" =>
      /\ \A k \in 1..Len(nums) :
           (last.kind = "event" /\ last.emoji = nums[k] /\ k <= Len(embeds[head + 1]))
           => /\ pc = "returned"
              /\ result = <<options.items[(10 * head + k - 1) + 1]>>
      /\ C1_ThreeOnPageOne => result = <<options.items[12 + 1]>>
      /\ (/\ Len(options.items) = 10
          /\ Len(embeds) = 1
          /\ Len(embeds[1]) = 10
          /\ last.kind = "event") =>
           /\ last.emoji = "ONE" => result = <<options.items[0 + 1]>>
           /\ last.emoji = "TEN" => result = <<options.items[9 + 1]>>
      /\ pc = "waiting" =>
           \A k \in 1..Len(nums) :
             nums[k] \in attached => multichoice_check(AuthorOnMenu(nums[k]))

\* C1 witness: numeral 3 selected on page 1 of 25 options has returned the
\* thirteenth option.
C1_Witness ==
    /\ C1_ThreeOnPageOne
    /\ pc = "returned"
    /\ result = <<options.items[13]>>
    /\ result[1].tag = 13

\* C2: the chunks of chunkify_string_list, concatenated in order, equal the
\* input list, so that every option of multichoice is on a page.
C2_ChunksConcatToInput ==
    (menu = "multichoice" /\ sends > 0) => Flatten(embeds) = options.items

\* What the claims call authorized, by lock mode: the invoking user by
\* default, anybody when open, the named member, a holder of the named role.
ClaimedAuthorized(user, holdsRole) ==
    CASE lock.kind = "bool" /\ lock.value -> user = "author"
      [] lock.kind = "Member" -> user = lock.id
      [] lock.kind = "Role" -> holdsRole
      [] OTHER -> TRUE

\* C3: confirm returns True on approve, False on deny and None on timeout;
\* an event of an unauthorized user gives no result: the dialog stays in
\* its wait, which its timeout can still end.
C3_ConfirmOutcome ==
    menu = "confirm" =>
      /\ pc = "returned" => last.kind \in {"event", "timeout"}
      /\ (pc = "returned" /\ last.kind = "timeout") => result = None
      /\ (pc = "returned" /\ last.kind = "event") =>
           /\ last.emoji = THUMBS_UP => result = <<TRUE>>
           /\ last.emoji = X => result = <<FALSE>>
           /\ last.emoji \in {THUMBS_UP, X}
           /\ ClaimedAuthorized(last.user, last.hadRole)
      /\ pc = "waiting" =>
           /\ result = None
           /\ last.kind = "none"
           /\ ENABLED (\E outcome \in ClearOutcomes : ConfirmTimeout(outcome))
      /\ pc \in {"waiting", "returned"}

\* C3 witness: a stranger was given the locked role while the dialog waited
\* and has denied it.
C3_Witness ==
    /\ menu = "confirm"
    /\ pc = "returned"
    /\ lock.kind = "Role"
    /\ last.kind = "event" /\ last.user = "stranger" /\ last.emoji = X
    /\ result = <<FALSE>>

\* C4 as claimed: an approve or deny event on the dialog message is let
\* through iff its user is authorized by the lock mode.
C4_AcceptsIffAuthorized ==
    (menu = "confirm" /\ pc = "waiting") =>
      \A u \in Users, emoji \in {THUMBS_UP, X} :
        confirm_check([user |-> u, msg |-> "menu", emoji |-> emoji])
          <=> ClaimedAuthorized(u, roles[u])

\* C4 amended: an approve or deny event on the dialog message is let
\* through iff its user is not the bot itself and is authorized by the lock
\* mode, the role being the one held when the event is checked.
C4_AcceptsIffAuthorizedNotBot ==
    menu = "confirm" =>
      /\ pc = "waiting" =>
           \A u \in Users, emoji \in {THUMBS_UP, X} :
             confirm_check([user |-> u, msg |-> "menu", emoji |-> emoji])
               <=> (u # "bot" /\ ClaimedAuthorized(u, roles[u]))
      /\ last.kind = "event" =>
           /\ last.user # "bot"
           /\ last.msg = "menu"
           /\ ClaimedAuthorized(last.user, last.hadRole)

\* C4 witness: under a role lock, the member's event was let through when
\* the member held the role, and the role was taken away afterwards (the
\* invoking user never held it).
C4_Witness ==
    /\ menu = "confirm"
    /\ lock.kind = "Role"
    /\ pc = "returned"
    /\ last.kind = "event" /\ last.user = "member" /\ last.hadRole
    /\ ~roles["author"]

\* the call has attached reactions to its message
HasAttached == menu \in {"confirm", "multichoice"} \/ (menu = "arrows" /\ embed_len > 1)

\* C5 as claimed: every return of a menu that had attached reactions comes
\* after exactly one attempt to clear them.
C5_ClearOnceOnReturn ==
    (pc = "returned" /\ HasAttached) => clears = 1

\* C5 amended: arrows and confirm call try_clear_reactions once on every
\* return path, which attempts the clear once if the message is in a guild
\* and not at all in a DM channel; multichoice attempts no clear when it
\* returns: it deletes the message, once.
C5_ClearOrDeleteOnReturn ==
    (pc = "returned" /\ HasAttached) =>
      /\ menu \in {"arrows", "confirm"} =>
           /\ clears = (IF inGuild THEN 1 ELSE 0)
           /\ deletes = 0
           /\ ~inGuild => attached # {}
      /\ menu = "multichoice" => (clears = 0 /\ deletes = 1 /\ msg = "deleted")

\* C5 witness: arrows was closed in a guild, after one clear.
C5_Witness ==
    /\ menu = "arrows"
    /\ pc = "returned"
    /\ inGuild
    /\ last.kind = "event" /\ last.emoji = X
    /\ clears = 1

\* C6: multichoice processes a reaction only if the invoking user added it
\* to the menu's own message in the invoking channel.
C6_OnlyOwnMessage ==
    (menu = "multichoice" /\ last.kind = "event") =>
      (last.user = "author" /\ last.msg = "menu")

\* the exceptions the validation of multichoice raises
ValidationErrors ==
    {"ValueError: Options cannot be empty",
     "TypeError: options param must be list",
     "TypeError: all of the options must be str",
     "ValueError: The maximum length for any option is 2000",
     "ValueError: All items should be of length 2000 or less."}

\* options is a non-empty list of strings
ListOfStrings(opts) ==
    /\ opts.kind = "list"
    /\ Len(opts.items) > 0
    /\ \A i \in 1..Len(opts.items) : opts.items[i].typ = "str"

\* C7: multichoice raises a validation error, with no message sent and no
\* reaction attached, if options is empty, is no list, holds an element that
\* is no string, or holds a string longer than 2000.
C7_InvalidOptionsRaise ==
    (/\ menu = "multichoice"
     /\ \/ ~ListOfStrings(options)
        \/ \E i \in 1..Len(options.items) : options.items[i].len > 2000)
    => /\ pc = "raised"
       /\ error \in ValidationErrors
       /\ sends = 0
       /\ msg = "none"
       /\ attached = {}

\* C7 witness: the last of 25 strings is 2001 long, and the call has raised.
C7_Witness ==
    /\ menu = "multichoice"
    /\ pc = "raised"
    /\ ListOfStrings(options)
    /\ Len(options.items) = 25
    /\ options.items[25].len = 2001
    /\ sends = 0

\* C8: every non-empty list of strings of at most 2000 characters each is
\* accepted: no validation error is raised and the menu message is sent.
C8_ValidOptionsAccepted ==
    (/\ menu = "multichoice"
     /\ ListOfStrings(options)
     /\ \A i \in 1..Len(options.items) : options.items[i].len <= 2000)
    => /\ error \notin ValidationErrors
       /\ sends = 1

\* C9: a menu whose clear was refused by the host raises no error.
C9_RefusalNeverSurfaces ==
    refused => pc # "raised"

\* C10: in multichoice a close by the invoking user is let through on every
\* page; a close or a timeout returns None; the message is deleted exactly
\* once on every path that ends the call, and not before.
C10_DeletedOnceOnEnd ==
    (menu = "multichoice" /\ sends > 0) =>
      /\ pc = "waiting" =>
           /\ deletes = 0 /\ msg = "shown"
           /\ multichoice_check(AuthorOnMenu(X))
           /\ ENABLED MultichoiceTimeout
      /\ pc \in {"returned", "raised"} => (deletes = 1 /\ msg = "deleted")
      /\ (pc # "waiting" /\ (last.kind = "timeout" \/ last.emoji = X)) =>
           (pc = "returned" /\ result = None)

\* C10 witness: the menu was closed on its last page of three.
C10_Witness ==
    /\ menu = "multichoice"
    /\ pc = "returned"
    /\ Len(embeds) = 3 /\ head = 2
    /\ last.kind = "event" /\ last.emoji = X /\ last.user = "author"
    /\ deletes = 1 /\ msg = "deleted" /\ result = None

\* The affordances the claims give arrows at index i of n views.
ClaimedArrows(i, n) ==
    (IF i - 2 >= 0 THEN {LAST_TRACK} ELSE {})
    \cup (IF i - 1 >= 0 THEN {REVERSE} ELSE {})
    \cup (IF i + 1 < n THEN {PLAY} ELSE {})
    \cup (IF i + 2 < n THEN {NEXT_TRACK} ELSE {})
    \cup {PAUSE, X}

\* C11: in arrows with more than one view, the affordances attached for
\* index i are first iff i-2 >= 0, prev iff i-1 >= 0, next iff i+1 < n, last
\* iff i+2 < n, and pause and close; for n = 5 these are all six at i = 2,
\* {next, last, pause, close} at i = 0 and {first, prev, pause, close} at
\* i = 4.
C11_ArrowsAffordances ==
    (menu = "arrows" /\ pc = "waiting") =>
      /\ Range(to_react) = ClaimedArrows(head, embed_len)
      /\ Range(to_react) \subseteq attached
      /\ Len(to_react) = Cardinality(Range(to_react))
      /\ embed_len = 5 =>
           /\ head = 2 => Range(to_react) = {LAST_TRACK, REVERSE, PLAY, NEXT_TRACK, PAUSE, X}
           /\ head = 0 => Range(to_react) = {PLAY, NEXT_TRACK, PAUSE, X}
           /\ head = 4 => Range(to_react) = {LAST_TRACK, REVERSE, PAUSE, X}

\* C11 witness: five views, index 2 reached from index 4 with every clear
\* allowed, all six affordances attached.
C11_Witness ==
    /\ menu = "arrows"
    /\ pc = "waiting"
    /\ embed_len = 5 /\ head = 2
    /\ last.kind = "event" /\ last.emoji = REVERSE
    /\ attached = {LAST_TRACK, REVERSE, PLAY, NEXT_TRACK, PAUSE, X}

\* C12: in arrows a timeout has the effect of pause: the call returns None
\* without raising, the message still shows the view of the current index
\* (it is neither edited nor deleted), and try_clear_reactions has stripped
\* its affordances unless the host refused or the channel is a DM.
C12_TimeoutLikePause ==
    (/\ menu = "arrows"
     /\ embed_len > 1
     /\ pc # "waiting"
     /\ last.kind = "timeout" \/ (last.kind = "event" /\ last.emoji = PAUSE))
    => /\ pc = "returned"
       /\ error = ""
       /\ result = None
       /\ msg = "shown"
       /\ shown = View(head)
       /\ deletes = 0
       /\ sends = 1
       /\ clears = (IF inGuild THEN 1 ELSE 0)
       /\ (attached = {} \/ refused \/ ~inGuild)

\* C12 witness: arrows timed out at index 1 after a navigation; the view of
\* index 1 is still shown and the affordances are gone.
C12_Witness ==
    /\ menu = "arrows"
    /\ pc = "returned"
    /\ last.kind = "timeout"
    /\ head = 1
    /\ msg = "shown"
    /\ shown = View(1)
    /\ attached = {}

\* C13: for every list and max_number >= 1 the chunks of chunkify,
\* concatenated in order, equal the input list; every chunk has at most
\* max_number items and every chunk but the last exactly max_number; the
\* list of 7 elements with max_number 3 gives chunks of elements 1-3, 4-6
\* and 7.
C13_ChunkifyPartitions ==
    gen.fn = "chunkify" =>
      /\ gen.pc # "raised"
      /\ \A k \in 1..Len(gen.out) :
           /\ Len(gen.out[k]) >= 1
           /\ Len(gen.out[k]) <= gen.max_number
           /\ (k < Len(gen.out) \/ gen.i < Len(gen.input_list))
                => Len(gen.out[k]) = gen.max_number
      /\ Flatten(gen.out) = SubSeq(gen.input_list, 1, Min(gen.i, Len(gen.input_list)))
      /\ gen.pc = "exhausted" =>
           /\ Flatten(gen.out) = gen.input_list
           /\ (Len(gen.input_list) = 7 /\ gen.max_number = 3) =>
                gen.out = <<SubSeq(gen.input_list, 1, 3), SubSeq(gen.input_list, 4, 6),
                            SubSeq(gen.input_list, 7, 7)>>

\* C13 witness: chunkify of 7 elements by 3 has ended after three chunks,
\* the last of one element.
C13_Witness ==
    /\ gen.fn = "chunkify"
    /\ gen.pc = "exhausted"
    /\ Len(gen.input_list) = 7 /\ gen.max_number = 3
    /\ Len(gen.out) = 3 /\ Len(gen.out[3]) = 1

\* the length of the chunk joined with separator_length between its items
JoinedWidth(chunk, separator_length) ==
    JoinedLen(chunk, 0) + separator_length * (Len(chunk) - 1)

\* C14: for an input that passes the validation, every chunk of
\* chunkify_string_list is non-empty (the shrinking loop stops with an item
\* left), has at most max_number items, and the sum of its item lengths plus
\* separator_length between consecutive items is at most max_length.
C14_ChunksWithinBounds ==
    gen.fn = "chunkify_string_list" =>
      \A k \in 1..Len(gen.out) :
        /\ Len(gen.out[k]) >= 1
        /\ Len(gen.out[k]) <= gen.max_number
        /\ JoinedWidth(gen.out[k], gen.separator_length) <= gen.max_length

\* C14 witness: for three strings of 2 characters, max_number 3, max_length
\* 5 and separator_length 1, the chunk of three was shrunk to two.
C14_Witness ==
    /\ gen.fn = "chunkify_string_list"
    /\ gen.pc = "exhausted"
    /\ Len(gen.input_list) = 3
    /\ \A i \in 1..3 : gen.input_list[i].len = 2
    /\ gen.max_number = 3 /\ gen.max_length = 5 /\ gen.separator_length = 1
    /\ Len(gen.out) = 1 /\ Len(gen.out[1]) = 2

\* some item of the input is longer than max_length - separator_length
HasLongItem ==
    \E i \in 1..Len(gen.input_list) :
      gen.input_list[i].len > gen.max_length - gen.separator_length

\* C15: when some item, at any position, is longer than max_length -
\* separator_length, chunkify_string_list raises its validation error as
\* soon as it runs, before it yields any chunk.
C15_LongItemRaisesFirst ==
    (gen.fn = "chunkify_string_list" /\ HasLongItem /\ gen.pc # "created") =>
      /\ gen.pc = "raised"
      /\ gen.out = <<>>
      /\ gen.error # ""

\* C15 witness: the only long item is the last of three, beyond the first
\* chunk, and the generator has raised.
C15_Witness ==
    /\ gen.fn = "chunkify_string_list"
    /\ gen.pc = "raised"
    /\ Len(gen.input_list) = 3 /\ gen.max_number = 1
    /\ gen.input_list[1].len <= gen.max_length - gen.separator_length
    /\ gen.input_list[2].len <= gen.max_length - gen.separator_length
    /\ gen.input_list[3].len > gen.max_length - gen.separator_length
    /\ gen.out = <<>>

\* The index the claims give a navigation of arrows from index i of n views.
ClaimedIndex(i, n, emoji) ==
    CASE emoji = LAST_TRACK -> 0
      [] emoji = REVERSE -> IF i - 1 > 0 THEN i - 1 ELSE 0
      [] emoji = PLAY -> IF i + 1 < n - 1 THEN i + 1 ELSE n - 1
      [] emoji = NEXT_TRACK -> n - 1
      [] OTHER -> i

\* C16: arrows started with 0 <= head < len(embed_list) keeps its index in
\* 0..len-1 and never raises, the view shown is the one of the index, and
\* every navigation gives first -> 0, prev -> max(index-1, 0), next ->
\* min(index+1, len-1), last -> len-1.
C16_ArrowsIndexInRange ==
    /\ []((menu = "arrows" /\ embed_len > 1) =>
            /\ pc # "raised"
            /\ 0 <= head /\ head <= embed_len - 1
            /\ shown.kind = "view" => shown.index = head)
    /\ [][(menu = "arrows" /\ pc = "waiting" /\ pc' = "waiting") =>
            /\ last'.kind = "event"
            /\ last'.emoji \in {LAST_TRACK, REVERSE, PLAY, NEXT_TRACK}
            /\ head' = ClaimedIndex(head, embed_len, last'.emoji)
            /\ shown' = View(head')]_vars

\* C16 witness: next was selected at the last index but one of five views,
\* and the last view is shown.
C16_Witness ==
    /\ menu = "arrows"
    /\ pc = "waiting"
    /\ embed_len = 5 /\ head = 4
    /\ last.kind = "event" /\ last.emoji = PLAY
    /\ shown = View(4)

\* the numerals of the options of page h
PageNumerals(h) == {nums[k] : k \in 1..Len(embeds[h + 1])}

\* C17: an event is processed only if its symbol is valid for the page
\* displayed; in multichoice a processed numeral indexes an option of the
\* current page, also after a refused clear.
C17_ProcessedNumeralOnPage ==
    (menu = "multichoice" /\ last.kind = "event" /\ IsNum(last.emoji)) =>
      /\ last.emoji \in PageNumerals(head)
      /\ pc = "returned"

\* C18: wherever arrows or multichoice waits, the affordances attached to
\* its message are exactly those valid for the current index or page.
C18_AttachedIsValidSet ==
    pc = "waiting" =>
      /\ menu = "arrows" => attached = ClaimedArrows(head, embed_len)
      /\ menu = "multichoice" =>
           attached = Range(multichoice_get_reactions(embeds, head, multiple))

\* multichoice has sent its menu and the menu has more than one page
ManyPages == menu = "multichoice" /\ sends > 0 /\ Len(embeds) > 1

\* C19 as claimed: the affordances of page h are its numerals and close,
\* prev iff h is not the first page, next iff it is not the last, first only
\* if h-2 is a page and last only if h+2 is a page.
C19_TwoAwayRule ==
    ManyPages =>
      \A h \in 0..(Len(embeds) - 1) :
        LET set == Range(multichoice_get_reactions(embeds, h, multiple))
        IN  /\ set \ {LAST_TRACK, REVERSE, PLAY, NEXT_TRACK} = PageNumerals(h) \cup {X}
            /\ REVERSE \in set <=> h # 0
            /\ PLAY \in set <=> h # Len(embeds) - 1
            /\ LAST_TRACK \in set => h - 2 >= 0
            /\ NEXT_TRACK \in set => h + 2 <= Len(embeds) - 1

\* C19 amended: the affordances of page h are its numerals and close, first
\* and prev iff h is not the first page, next and last iff h is not the last
\* page; they are the ones attached while the menu waits on page h, as long
\* as no clear was refused.
C19_OneAwayRule ==
    ManyPages =>
      /\ \A h \in 0..(Len(embeds) - 1) :
           Range(multichoice_get_reactions(embeds, h, multiple))
             = PageNumerals(h) \cup {X}
               \cup (IF h # 0 THEN {LAST_TRACK, REVERSE} ELSE {})
               \cup (IF h # Len(embeds) - 1 THEN {PLAY, NEXT_TRACK} ELSE {})
      /\ (pc = "waiting" /\ ~refused) =>
           /\ Range(to_react) = Range(multichoice_get_reactions(embeds, head, multiple))
           /\ attached = Range(to_react)

\* C19 witness: page 1 of three reached with the clear allowed: first is
\* attached although page 1 has no page two behind it.
C19_Witness ==
    /\ ManyPages
    /\ pc = "waiting"
    /\ ~refused
    /\ Len(embeds) = 3 /\ head = 1
    /\ last.kind = "event" /\ last.emoji = PLAY
    /\ {LAST_TRACK, REVERSE, PLAY, NEXT_TRACK, X} \subseteq attached

\* The page the claims give a navigation of multichoice from page i of n.
ClaimedPage(i, n, emoji) ==
    CASE emoji = LAST_TRACK -> 0
      [] emoji = REVERSE -> IF i - 1 > 0 THEN i - 1 ELSE 0
      [] emoji = PLAY -> IF i + 1 < n - 1 THEN i + 1 ELSE n - 1
      [] emoji = NEXT_TRACK -> n - 1
      [] OTHER -> i

\* C20: in multichoice with more than one page the page index stays in
\* 0..pages-1, every navigation gives first -> 0, prev -> page-1 floored at
\* 0, next -> page+1 capped at the last page, last -> last page, and the
\* message shows the page of the index with the marker (index+1)/(pages).
C20_PageIndexInRange ==
    /\ [](ManyPages =>
            /\ 0 <= head /\ head <= Len(embeds) - 1
            /\ shown.kind = "page"
            /\ shown.index = head
            /\ shown.footer = <<head + 1, Len(embeds)>>)
    /\ [][(ManyPages /\ pc = "waiting" /\ pc' = "waiting") =>
            /\ last'.kind = "event"
            /\ last'.emoji \in {LAST_TRACK, REVERSE, PLAY, NEXT_TRACK}
            /\ head' = ClaimedPage(head, Len(embeds), last'.emoji)]_vars

\* C20 witness: next was selected on page 1 of three; page 2 is shown with
\* the marker 3/3.
C20_Witness ==
    /\ ManyPages
    /\ pc = "waiting"
    /\ Len(embeds) = 3 /\ head = 2
    /\ last.kind = "event" /\ last.emoji = PLAY
    /\ shown.index = 2 /\ shown.footer = <<3, 3>>

====
